---- MODULE Spec2Model ----
(***************************************************************************)
(* Model of train.ipynb: the graph construction loop (networkx DiGraph ->  *)
(* DGL graph with mirrored edges), the BiDirectionalGCN and                *)
(* GATWithSelfLoop layers, and Classifier.forward over a batched graph.    *)
(*                                                                         *)
(* Tensors are sequences of integers.  Node and edge ids are 0-based as in *)
(* the notebook; row i of a tensor is element i+1 of the sequence.         *)
(***************************************************************************)
EXTENDS Integers, Sequences, FiniteSets, TLC

VARIABLES
    file,        \* the lines of the edge-list file last presented to the loop
    pending,     \* rows of df_target still to be read
    graphs,      \* the list `graphs`
    bg,          \* <<>> or <<the batched graph>>
    prediction,  \* <<>> or <<the logits returned by the last forward call>>
    features,    \* the list `features` of the last forward call that returned
    attentions,  \* <<>> or <<GATWithSelfLoop.attentions>>
    err,         \* the exception that stopped the notebook, or None
    call,        \* arguments of a function applied on its own
    text,        \* the lines of an edge-list file as text, field by field
    ret,         \* <<>> or <<its outcome>>
    seed,        \* the seed that fixes the parameters
    dgl_fill,    \* what DGL leaves in a reduced field of a node without messages
    batch_size,  \* the number of graphs of a batch of the prediction loop
    df_probs_list  \* the list `df_probs_list`: per batch, the rows and their outputs

vars == <<file, pending, graphs, bg, prediction, features, attentions, err, call,
          text, ret, seed, dgl_fill,
                   batch_size, df_probs_list>>

(***************************************************************************)
(* Bounds and program constants                                            *)
(***************************************************************************)
MaxLines == 2
MaxGraphs == 2
MantBits == 2
MaxN == 12
MaxF == 8
n_features == 8
HeadNodes == 7
ReadoutRows == 9
n_classes == 1
hidden_dim == 2
MaxSeed == 1

None == "None"

\* The outcome of a call: the value returned, or the exception raised.
Ok(v) == [exc |-> None, val |-> v]

Raise(e) == [exc |-> e]

Raised(r) == r.exc # None

Range(s) == {s[i] : i \in DOMAIN s}

MaxOf(S) == CHOOSE x \in S : \A y \in S : y <= x

RECURSIVE Pow2(_)
Pow2(n) == IF n <= 0 THEN 1 ELSE 2 * Pow2(n - 1)

(***************************************************************************)
(* Python float (double) -> torch default dtype (single precision).  The   *)
(* edge-list weight is parsed as a double and stored by DGL in a float32   *)
(* tensor.  Doubles are modelled as integers and float32 keeps MantBits    *)
(* significant bits, rounding to nearest, ties to even.                    *)
(***************************************************************************)
RECURSIVE Ulp(_)
Ulp(m) == IF m < Pow2(MantBits) THEN 1 ELSE 2 * Ulp(m \div 2)

RoundToEven(m, q) ==
    LET lo == (m \div q) * q
        r  == m - lo
    IN  IF 2 * r < q THEN lo
        ELSE IF 2 * r > q THEN lo + q
        ELSE IF (lo \div q) % 2 = 0 THEN lo ELSE lo + q

ToFloat32(w) ==
    IF w >= 0 THEN RoundToEven(w, Ulp(w)) ELSE 0 - RoundToEven(0 - w, Ulp(0 - w))

(***************************************************************************)
(* networkx.DiGraph: nodes in insertion order, adj[u] the successors of u  *)
(* in insertion order, each with its weight attribute.                     *)
(***************************************************************************)
EmptyDiGraph == [nodes |-> <<>>, adj |-> <<>>]

add_node(G, n) ==
    IF n \in Range(G.nodes) THEN G
    ELSE [nodes |-> Append(G.nodes, n),
          adj   |-> [m \in Range(G.nodes) \cup {n} |->
                        IF m = n THEN <<>> ELSE G.adj[m]]]

\* add_edge that keeps the weight already stored for an edge seen before.
add_edge_keep_first(G, u, v, w) ==
    LET G2  == add_node(add_node(G, u), v)
        row == G2.adj[u]
        has == \E k \in DOMAIN row : row[k][1] = v
    IN  IF has THEN G2 ELSE [G2 EXCEPT !.adj[u] = Append(row, <<v, w>>)]

add_edge(G, u, v, w) ==
    LET G2  == add_node(add_node(G, u), v)
        row == G2.adj[u]
        has == \E k \in DOMAIN row : row[k][1] = v
        new == IF has
               THEN [k \in DOMAIN row |-> IF row[k][1] = v THEN <<v, w>> ELSE row[k]]
               ELSE Append(row, <<v, w>>)
    IN  [G2 EXCEPT !.adj[u] = new]

\* The text of a field is a sequence of characters; the characters of the
\* model are the digits, "-" and letters.
Digits == <<"0", "1", "2", "3", "4", "5", "6", "7", "8", "9">>

IsDigit(c) == \E d \in DOMAIN Digits : Digits[d] = c

DigitValue(c) == (CHOOSE d \in DOMAIN Digits : Digits[d] = c) - 1

RECURSIVE Numeral(_, _)
Numeral(t, acc) ==
    IF t = <<>> THEN acc ELSE Numeral(Tail(t), 10 * acc + DigitValue(Head(t)))

\* int(text): an optional sign and at least one digit, or ValueError
int(t) ==
    LET Signed(neg, ds) ==
            IF ds = <<>> \/ \E k \in DOMAIN ds : ~IsDigit(ds[k])
            THEN Raise("ValueError")
            ELSE Ok(IF neg THEN 0 - Numeral(ds, 0) ELSE Numeral(ds, 0))
    IN  IF t # <<>> /\ Head(t) = "-" THEN Signed(TRUE, Tail(t)) ELSE Signed(FALSE, t)

\* float(text); on texts without "." or exponent it accepts what int accepts
float(t) == int(t)

\* The fields of the lines converted with nodetype=int and float; a field
\* that does not convert raises TypeError.
convert_lines(lines) ==
    IF \E k \in DOMAIN lines :
          Raised(int(lines[k][1])) \/ Raised(int(lines[k][2]))
              \/ Raised(float(lines[k][3]))
    THEN Raise("TypeError")
    ELSE Ok([k \in DOMAIN lines |->
               <<int(lines[k][1]).val, int(lines[k][2]).val, float(lines[k][3]).val>>])

\* A converted line "s,d,w" is the triple <<s, d, w>> of numbers.
IsInt(x) == x \in Int

LineOk(line) == IsInt(line[1]) /\ IsInt(line[2]) /\ IsInt(line[3])

RECURSIVE parse_edgelist(_, _)
parse_edgelist(G, lines) ==
    IF lines = <<>> THEN G
    ELSE parse_edgelist(add_edge(G, Head(lines)[1], Head(lines)[2], Head(lines)[3]),
                        Tail(lines))

read_weighted_edgelist(lines) ==
    IF \A k \in DOMAIN lines : LineOk(lines[k])
    THEN Ok(parse_edgelist(EmptyDiGraph, lines))
    ELSE Raise("TypeError")

\* for i in range(last_id): if not Di_G.has_node(i): Di_G.add_node(i)
RECURSIVE PadNodes(_, _, _)
PadNodes(G, i, last_id) ==
    IF i >= last_id THEN G ELSE PadNodes(add_node(G, i), i + 1, last_id)

\* Di_G.edges: for every node in insertion order, its successors in order.
RECURSIVE DiEdges(_, _)
DiEdges(G, k) ==
    IF k > Len(G.nodes) THEN <<>>
    ELSE LET u == G.nodes[k]
         IN  [j \in DOMAIN G.adj[u] |-> <<u, G.adj[u][j][1], G.adj[u][j][2]>>]
             \o DiEdges(G, k + 1)

(***************************************************************************)
(* make_node_feature                                                       *)
(***************************************************************************)
eye(n) == [i \in 1..n |-> [j \in 1..n |-> IF i = j THEN 1 ELSE 0]]

zeros(rows, cols) == [i \in 1..rows |-> [j \in 1..cols |-> 0]]

\* make_node_feature that sets column n_features-2 of the generic rows.
make_node_feature_off_by_one(n_nodes, n_feat) ==
    IF n_nodes < n_feat THEN Raise("RuntimeError")
    ELSE IF n_feat < 1 THEN Raise("IndexError")
    ELSE LET t1 == eye(n_feat)
             t0 == zeros(n_nodes - n_feat, n_feat)
             t2 == [i \in DOMAIN t0 |->
                      [j \in 1..n_feat |-> IF j = n_feat - 1 THEN 1 ELSE t0[i][j]]]
         IN  Ok(t1 \o t2)

\* make_node_feature that returns the first n_nodes one-hot rows for a small graph.
make_node_feature_any_size(n_nodes, n_feat) ==
    IF n_feat < 1 THEN Raise("IndexError")
    ELSE IF n_nodes < n_feat THEN Ok(SubSeq(eye(n_feat), 1, n_nodes))
    ELSE LET t1 == eye(n_feat)
             t0 == zeros(n_nodes - n_feat, n_feat)
             t2 == [i \in DOMAIN t0 |-> [t0[i] EXCEPT ![n_feat] = 1]]
         IN  Ok(t1 \o t2)

make_node_feature(n_nodes, n_feat) ==
    IF n_nodes < n_feat THEN Raise("RuntimeError")
    ELSE IF n_feat < 1 THEN Raise("IndexError")
    ELSE LET t1 == eye(n_feat)
             t0 == zeros(n_nodes - n_feat, n_feat)
             t2 == [i \in DOMAIN t0 |-> [t0[i] EXCEPT ![n_feat] = 1]]
         IN  Ok(t1 \o t2)

(***************************************************************************)
(* DGLGraph.from_networkx: nodes relabelled 0..N-1 in sorted order, edges  *)
(* in Di_G.edges order, 'weight' batched into a float32 tensor.            *)
(***************************************************************************)
\* relabelling that numbers the nodes in the order they were added.
Rank_by_insertion(G, n) == (CHOOSE k \in DOMAIN G.nodes : G.nodes[k] = n) - 1

Rank(G, n) == Cardinality({m \in Range(G.nodes) : m < n})

from_networkx(G) ==
    LET es == DiEdges(G, 1)
    IN  [n     |-> Len(G.nodes),
         src   |-> [k \in DOMAIN es |-> Rank(G, es[k][1])],
         dst   |-> [k \in DOMAIN es |-> Rank(G, es[k][2])],
         ndata |-> <<>>,
         edata |-> [f \in {"weight"} |-> [k \in DOMAIN es |-> ToFloat32(es[k][3])]]]

number_of_edges(g) == Len(g.src)

\* data[name] = value
SetField(data, name, value) == (name :> value) @@ data

\* data.pop(name)
RECURSIVE DropFrom(_, _, _)
DropFrom(data, name, fs) ==
    IF fs = {} THEN <<>>
    ELSE LET f == CHOOSE x \in fs : TRUE
         IN  IF f = name THEN DropFrom(data, name, fs \ {f})
             ELSE (f :> data[f]) @@ DropFrom(data, name, fs \ {f})

DropField(data, name) == DropFrom(data, name, DOMAIN data)

\* add_edges that appends the new edges without exchanging their end points.
add_edges_same_way(g, u, v, data) ==
    [g EXCEPT !.src = g.src \o v,
              !.dst = g.dst \o u,
              !.edata = [f \in DOMAIN g.edata |-> g.edata[f] \o data[f]]]

\* G.add_edges(dst, src, data={'weight': weight, 'direction': direction})
add_edges(g, u, v, data) ==
    [g EXCEPT !.src = g.src \o u,
              !.dst = g.dst \o v,
              !.edata = [f \in DOMAIN g.edata |-> g.edata[f] \o data[f]]]

\* The body of the graph construction loop for one edge-list file: the graph,
\* or the name of the exception raised.
BuildGraph(lines) ==
    LET read == read_weighted_edgelist(lines)
    IN  IF Raised(read) THEN read
        ELSE IF read.val.nodes = <<>> THEN Raise("IndexError")
        ELSE LET Di_G    == read.val
                 last_id == MaxOf(Range(Di_G.nodes))
                 padded  == PadNodes(Di_G, 0, last_id)
                 G0      == from_networkx(padded)
                 h       == make_node_feature(G0.n, n_features)
             IN  IF Raised(h) THEN h
                 ELSE LET G1 == [G0 EXCEPT !.ndata = SetField(G0.ndata, "h", h.val)]
                          G2 == [G1 EXCEPT !.edata =
                                    SetField(G1.edata, "direction",
                                             [k \in 1..number_of_edges(G1) |-> 0])]
                          direction == [k \in 1..number_of_edges(G2) |-> 1]
                      IN  Ok(add_edges(G2, G2.dst, G2.src,
                                       [weight |-> G2.edata["weight"],
                                        direction |-> direction]))

(***************************************************************************)
(* Tensor arithmetic.  Entries are integers and the arithmetic is exact;   *)
(* the one division of the model (mean, weighted mean) rounds down.        *)
(***************************************************************************)
\* A tensor is a sequence held by value.
tensor(t) == t \o <<>>

RECURSIVE SumSeq(_)
SumSeq(s) == IF s = <<>> THEN 0 ELSE Head(s) + SumSeq(Tail(s))

Dot(a, b) == SumSeq([j \in DOMAIN a |-> a[j] * b[j]])

VScale(x, c) == tensor([j \in DOMAIN x |-> x[j] * c])

\* torch.sum(t, dim) over a sequence of rows of the given width
VSum(rows, width) ==
    tensor([j \in 1..width |-> SumSeq([k \in DOMAIN rows |-> rows[k][j]])])

relu(x) == tensor([j \in DOMAIN x |-> IF x[j] > 0 THEN x[j] ELSE 0])

\* F.leaky_relu, negative_slope 0.01; the result is in units of 1/100 so that
\* the slope is exact.
leaky_relu(x) == tensor([j \in DOMAIN x |-> IF x[j] >= 0 THEN 100 * x[j] ELSE x[j]])

MinOf(S) == CHOOSE x \in S : \A y \in S : x <= y

\* F.softmax over a sequence of logits (units of 1/100): the weights as
\* numerators over one denominator.  e^x is not computable over the integers:
\* it is replaced by the positive, strictly increasing weight x - min + 1,
\* which like e^x gives positive weights that sum to one and do not change
\* when all logits are shifted by the same amount.
softmax(e) ==
    LET lo  == MinOf(Range(e))
        num == tensor([k \in DOMAIN e |-> e[k] - lo + 1])
    IN  [num |-> num, den |-> SumSeq(num)]

\* nn.Linear: y = W x + b
Linear(W, b, x) == tensor([i \in DOMAIN W |-> Dot(W[i], x) + b[i]])

(***************************************************************************)
(* Parameters of the model: the values torch draws at construction,        *)
(* modelled as small integers determined by the seed.                      *)
(***************************************************************************)
Coef(sd, layer, i, j) ==
    ((j * j + 3 * i * j + 3 * i + 2 * layer + (sd + 2) * (1 + i)) % 5) - 2

Weight(sd, layer, out, in) ==
    tensor([i \in 1..out |-> tensor([j \in 1..in |-> Coef(sd, layer, i, j)])])

Bias(sd, layer, out) == tensor([i \in 1..out |-> Coef(sd, layer, i, 0)])

NoBias(out) == tensor([i \in 1..out |-> 0])

(***************************************************************************)
(* The message and reduce functions of the two layers                      *)
(***************************************************************************)
BiGCN_message_func(g, e) ==
    [m         |-> VScale(g.ndata["h"][g.src[e] + 1], g.edata["weight"][e]),
     direction |-> g.edata["direction"][e]]

\* reduce_func that scales every message by its position in the mailbox.
BiGCN_reduce_func_by_position(g, v, mailbox) ==
    LET width == Len(mailbox[1].m)
        h0 == VSum([k \in DOMAIN mailbox |->
                       VScale(mailbox[k].m, k * mailbox[k].direction)], width)
        h1 == VSum([k \in DOMAIN mailbox |->
                       VScale(mailbox[k].m, k * ((mailbox[k].direction + 1) % 2))],
                   width)
    IN  [h0 |-> h0, h1 |-> h1]

BiGCN_reduce_func(g, v, mailbox) ==
    LET width == Len(mailbox[1].m)
        h0 == VSum([k \in DOMAIN mailbox |-> VScale(mailbox[k].m, mailbox[k].direction)],
                   width)
        h1 == VSum([k \in DOMAIN mailbox |->
                       VScale(mailbox[k].m, (mailbox[k].direction + 1) % 2)],
                   width)
    IN  [h0 |-> h0, h1 |-> h1]

\* message_func that sends the projection of the edge's destination node.
GAT_message_func_from_dst(g, e) ==
    [z |-> g.ndata["z"][g.dst[e] + 1], e |-> g.edata["e"][e]]

GAT_message_func(g, e) ==
    [z |-> g.ndata["z"][g.src[e] + 1], e |-> g.edata["e"][e]]

\* sum(alpha * z, dim=1): the weighted mean of the rows z under the weights alpha
WeightedSum(alpha, z) ==
    tensor([j \in DOMAIN z[1] |->
        SumSeq([k \in DOMAIN z |-> alpha.num[k] * z[k][j]]) \div alpha.den])

GAT_reduce_func(g, v, mailbox) ==
    LET e_self == g.ndata["e_self"][v + 1]
        e      == tensor([k \in DOMAIN mailbox |-> mailbox[k].e[1]]) \o e_self
        alpha  == softmax(e)
        z_self == g.ndata["z_self"][v + 1]
        z      == tensor([k \in DOMAIN mailbox |-> mailbox[k].z]) \o <<z_self>>
    IN  [h |-> relu(WeightedSum(alpha, z))]

\* self.message_func and self.reduce_func of the layer object self
message_func(self, g, e) ==
    IF self = "BiDirectionalGCN" THEN BiGCN_message_func(g, e)
    ELSE GAT_message_func(g, e)

reduce_func(self, g, v, mailbox) ==
    IF self = "BiDirectionalGCN" THEN BiGCN_reduce_func(g, v, mailbox)
    ELSE GAT_reduce_func(g, v, mailbox)

(***************************************************************************)
(* DGL message passing                                                     *)
(***************************************************************************)
NodeIdsOf(g) == 0..(g.n - 1)

\* ids of the edges into v, ascending
RECURSIVE InEdgesFrom(_, _, _)
InEdgesFrom(g, v, e) ==
    IF e > number_of_edges(g) THEN <<>>
    ELSE (IF g.dst[e] = v THEN <<e>> ELSE <<>>) \o InEdgesFrom(g, v, e + 1)

InEdges(g, v) == InEdgesFrom(g, v, 1)

\* g.update_all(message_func, reduce_func).  reduce_func runs on the nodes that
\* receive a message; a node without incoming edge gets the column initializer
\* (zeros) in every field reduce_func returns, or, when fill = "keep", keeps
\* the value of a field that already exists.
update_all(g, self, fill) ==
    LET \* the fields reduce_func returned, written to every node
        Store(red, recv) ==
            LET first   == red[MinOf(recv)]
                fields  == DOMAIN first
                kept(f) == fill = "keep" /\ f \in DOMAIN g.ndata /\ recv # 1..g.n
                col(f)  == tensor([i \in 1..g.n |->
                              IF i \in recv THEN red[i][f]
                              ELSE IF kept(f) THEN g.ndata[f][i]
                              ELSE tensor([j \in DOMAIN first[f] |-> 0])])
                RECURSIVE Write(_, _)
                Write(data, fs) ==
                    IF fs = {} THEN data
                    ELSE LET f == CHOOSE x \in fs : TRUE
                         IN  Write(SetField(data, f, col(f)), fs \ {f})
            IN  IF \E f \in fields : kept(f) /\ Len(g.ndata[f][1]) # Len(first[f])
                THEN Raise("DGLError")
                ELSE Ok([g EXCEPT !.ndata = Write(g.ndata, fields)])
        \* reduce_func on every node that has a mailbox
        Reduce(msgs, inc) ==
            Store(tensor([i \in 1..g.n |->
                     IF inc[i] # <<>>
                     THEN reduce_func(self, g, i - 1,
                              tensor([k \in DOMAIN inc[i] |-> msgs[inc[i][k]]]))
                     ELSE [skipped |-> TRUE]]),
                  {i \in 1..g.n : inc[i] # <<>>})
    IN  IF number_of_edges(g) = 0 THEN Ok(g)
        ELSE Reduce(tensor([e \in 1..number_of_edges(g) |-> message_func(self, g, e)]),
                    tensor([i \in 1..g.n |-> InEdges(g, i - 1)]))

(***************************************************************************)
(* BiDirectionalGCN                                                        *)
(***************************************************************************)
\* node_apply_func that concatenates (h, h1, h0).
BiGCN_node_apply_func_h1_first(sd, in_feats, out_feats, g, i) ==
    relu(Linear(Weight(sd, 1, out_feats, 3 * in_feats), Bias(sd, 1, out_feats),
                g.ndata["h"][i] \o g.ndata["h1"][i] \o g.ndata["h0"][i]))

BiGCN_node_apply_func(sd, in_feats, out_feats, g, i) ==
    relu(Linear(Weight(sd, 1, out_feats, 3 * in_feats), Bias(sd, 1, out_feats),
                g.ndata["h"][i] \o g.ndata["h0"][i] \o g.ndata["h1"][i]))

\* BiDirectionalGCN.forward(g, h): [exc, g, h]
BiGCN_forward(sd, in_feats, out_feats, g, h, fill) ==
    LET \* g.apply_nodes(func=self.node_apply_func); return g.ndata.pop('h')
        Apply(g2) ==
            IF \E f \in {"h0", "h1"} : f \notin DOMAIN g2.ndata
            THEN [exc |-> "KeyError", g |-> g2]
            ELSE IF \E i \in 1..g2.n :
                      Len(g2.ndata["h"][i]) + Len(g2.ndata["h0"][i])
                          + Len(g2.ndata["h1"][i]) # 3 * in_feats
            THEN [exc |-> "RuntimeError", g |-> g2]
            ELSE [exc |-> None,
                  g   |-> [g2 EXCEPT !.ndata = DropField(g2.ndata, "h")],
                  h   |-> tensor([i \in 1..g2.n |->
                             BiGCN_node_apply_func(sd, in_feats, out_feats, g2, i)])]
        Updated(g1, up) ==
            IF Raised(up) THEN [exc |-> up.exc, g |-> g1] ELSE Apply(up.val)
        \* g.update_all(self.message_func, self.reduce_func)
        Update(g1) ==
            Updated(g1, update_all(g1, "BiDirectionalGCN", fill))
    IN  Update([g EXCEPT !.ndata = SetField(g.ndata, "h", h)])

(***************************************************************************)
(* GATWithSelfLoop                                                         *)
(***************************************************************************)
GAT_node_apply_func(sd, in_dim, out_dim, x) ==
    LET z_self == Linear(Weight(sd, 4, out_dim, in_dim), NoBias(out_dim), x)
    IN  [z      |-> Linear(Weight(sd, 2, out_dim, in_dim), NoBias(out_dim), x),
         z_self |-> z_self,
         e_self |-> leaky_relu(Linear(Weight(sd, 5, 1, out_dim), NoBias(1), z_self))]

GAT_edge_attention(sd, out_dim, g, e) ==
    LET z2 == g.ndata["z"][g.src[e] + 1] \o g.ndata["z"][g.dst[e] + 1]
    IN  leaky_relu(Linear(Weight(sd, 3, 1, 2 * out_dim), NoBias(1), z2))

\* GATWithSelfLoop.forward(g, h): [exc, g, h, attn]; attn is self.attentions
\* when edge_attention has run.
GAT_forward(sd, in_dim, out_dim, g, h, fill) ==
    LET \* return g.ndata.pop('h')
        Updated(g3, e, up) ==
            IF Raised(up) THEN [exc |-> up.exc, g |-> g3, attn |-> <<e>>]
            ELSE [exc  |-> None,
                  g    |-> [up.val EXCEPT !.ndata = DropField(up.val.ndata, "h")],
                  h    |-> up.val.ndata["h"],
                  attn |-> <<e>>]
        \* g.update_all(self.message_func, self.reduce_func)
        Update(g3, e) ==
            Updated(g3, e, update_all(g3, "GATWithSelfLoop", fill))
        Attend(g2, e) == Update([g2 EXCEPT !.edata = SetField(g2.edata, "e", e)], e)
        \* g.apply_edges(self.edge_attention)
        Edges(g2) ==
            Attend(g2, tensor([k \in 1..number_of_edges(g2) |->
                                  GAT_edge_attention(sd, out_dim, g2, k)]))
        Applied(g1, ap) ==
            Edges([g1 EXCEPT !.ndata =
                      SetField(SetField(SetField(g1.ndata,
                          "z", tensor([i \in 1..g1.n |-> ap[i].z])),
                          "z_self", tensor([i \in 1..g1.n |-> ap[i].z_self])),
                          "e_self", tensor([i \in 1..g1.n |-> ap[i].e_self]))])
        \* g.apply_nodes(func=self.node_apply_func)
        Apply(g1) ==
            IF \E i \in 1..g1.n : Len(h[i]) # in_dim
            THEN [exc |-> "RuntimeError", g |-> g1, attn |-> <<>>]
            ELSE Applied(g1, tensor([i \in 1..g1.n |->
                                 GAT_node_apply_func(sd, in_dim, out_dim, h[i])]))
    IN  Apply([g EXCEPT !.ndata = SetField(g.ndata, "h", h)])

(***************************************************************************)
(* dgl.batch / dgl.unbatch                                                 *)
(***************************************************************************)
RECURSIVE Offsets(_, _)
\* node offset of every graph of the list
Offsets(graph_list, base) ==
    IF graph_list = <<>> THEN <<>>
    ELSE <<base>> \o Offsets(Tail(graph_list), base + Head(graph_list).n)

RECURSIVE Flatten(_)
Flatten(ss) == IF ss = <<>> THEN <<>> ELSE Head(ss) \o Flatten(Tail(ss))

\* every field of the frame (ndata or edata), concatenated over the graphs
RECURSIVE Cat(_, _, _)
Cat(graph_list, frame, fs) ==
    IF fs = {} THEN <<>>
    ELSE LET f == CHOOSE x \in fs : TRUE
         IN  (f :> Flatten([k \in DOMAIN graph_list |-> graph_list[k][frame][f]]))
                 @@ Cat(graph_list, frame, fs \ {f})

\* dgl.batch that does not shift the node ids of the edges.
dgl_batch_unshifted(graph_list) ==
    LET K == Len(graph_list)
    IN  [n     |-> SumSeq([k \in 1..K |-> graph_list[k].n]),
         src   |-> Flatten([k \in 1..K |-> graph_list[k].src]),
         dst   |-> Flatten([k \in 1..K |-> graph_list[k].dst]),
         ndata |-> Cat(graph_list, "ndata", DOMAIN graph_list[1].ndata),
         edata |-> Cat(graph_list, "edata", DOMAIN graph_list[1].edata),
         batch_num_nodes |-> tensor([k \in 1..K |-> graph_list[k].n])]

dgl_batch(graph_list) ==
    LET off == Offsets(graph_list, 0)
        K   == Len(graph_list)
        shifted(ids, k) == tensor([e \in DOMAIN ids |-> ids[e] + off[k]])
    IN  [n     |-> SumSeq([k \in 1..K |-> graph_list[k].n]),
         src   |-> Flatten([k \in 1..K |-> shifted(graph_list[k].src, k)]),
         dst   |-> Flatten([k \in 1..K |-> shifted(graph_list[k].dst, k)]),
         ndata |-> Cat(graph_list, "ndata", DOMAIN graph_list[1].ndata),
         edata |-> Cat(graph_list, "edata", DOMAIN graph_list[1].edata),
         batch_num_nodes |-> tensor([k \in 1..K |-> graph_list[k].n])]

\* dgl.unbatch(g), node field f: the rows of every graph of the batch
unbatch(g, f) ==
    LET off == Offsets([k \in DOMAIN g.batch_num_nodes |-> [n |-> g.batch_num_nodes[k]]], 0)
    IN  tensor([k \in DOMAIN g.batch_num_nodes |->
            SubSeq(g.ndata[f], off[k] + 1, off[k] + g.batch_num_nodes[k])])

(***************************************************************************)
(* Classifier                                                              *)
(***************************************************************************)
\* torch.mean(t, 0)
mean0(rows) ==
    tensor([j \in DOMAIN rows[1] |->
        SumSeq([k \in DOMAIN rows |-> rows[k][j]]) \div Len(rows)])

\* torch.max(t, 0)
max0(rows) == tensor([j \in DOMAIN rows[1] |-> MaxOf({rows[k][j] : k \in DOMAIN rows})])

\* rows[a:b] of Python
Slice(rows, a, b) ==
    SubSeq(rows, a + 1, IF b < Len(rows) THEN b ELSE Len(rows))

\* readout that pools over every node of the graph.
Readout_pool_all(rows) ==
    LET node_features == Slice(rows, 0, HeadNodes)
        rest          == Slice(rows, HeadNodes, Len(rows))
    IN  IF rest = <<>> THEN Raise("RuntimeError")
        ELSE Ok(Flatten(node_features \o <<mean0(rows)>> \o <<max0(rows)>>))

\* the body of the loop over dgl.unbatch(g): the flat readout vector of a graph
Readout(rows) ==
    LET node_features == Slice(rows, 0, HeadNodes)
        rest          == Slice(rows, HeadNodes, Len(rows))
    IN  IF rest = <<>> THEN Raise("RuntimeError")
        ELSE Ok(Flatten(node_features \o <<mean0(rest)>> \o <<max0(rest)>>))

\* Classifier.forward(g): [exc, g, attn, features, out]
Classifier_forward(sd, g, fill) ==
    LET \* self.fc2(F.relu(self.fc1(features)))
        Classify(g3, attn, feats) ==
            [exc |-> None, g |-> g3, attn |-> attn, features |-> feats,
             out |-> tensor([k \in DOMAIN feats |->
                        Linear(Weight(sd, 7, n_classes, hidden_dim),
                               Bias(sd, 7, n_classes),
                               relu(Linear(Weight(sd, 6, hidden_dim,
                                                  hidden_dim * ReadoutRows),
                                           Bias(sd, 6, hidden_dim), feats[k])))])]
        Stacked(g3, attn, read) ==
            IF \E k \in DOMAIN read :
                    Raised(read[k]) \/ Len(read[k].val) # hidden_dim * ReadoutRows
            THEN [exc |-> "RuntimeError", g |-> g3, attn |-> attn]
            ELSE Classify(g3, attn, tensor([k \in DOMAIN read |-> read[k].val]))
        \* for gx in dgl.unbatch(g): ...
        Unbatched(g3, attn, per) ==
            Stacked(g3, attn, tensor([k \in DOMAIN per |-> Readout(per[k])]))
        \* g.ndata['h'] = h
        Embedded(g3, attn) == Unbatched(g3, attn, unbatch(g3, "h"))
        Conv2(c2) ==
            IF c2.exc # None THEN [exc |-> c2.exc, g |-> c2.g, attn |-> c2.attn]
            ELSE Embedded([c2.g EXCEPT !.ndata = SetField(c2.g.ndata, "h", c2.h)],
                          c2.attn)
        Conv1(c1) ==
            IF c1.exc # None THEN [exc |-> c1.exc, g |-> c1.g, attn |-> <<>>]
            ELSE Conv2(GAT_forward(sd, hidden_dim, hidden_dim, c1.g, c1.h, fill))
    IN  IF "h" \notin DOMAIN g.ndata
        THEN [exc |-> "KeyError", g |-> g, attn |-> <<>>]
        ELSE Conv1(BiGCN_forward(sd, n_features, hidden_dim,
                                 [g EXCEPT !.ndata = DropField(g.ndata, "h")],
                                 g.ndata["h"], fill))

(***************************************************************************)
(* The graph construction loop, one edge-list file per row of df_target.   *)
(***************************************************************************)
NodeIds == {0, 1, 7, 8}
Weights == {1, 9}
Lines == NodeIds \X NodeIds \X Weights

\* The environment writes one more line to the file of the current row.
AppendLine(line) ==
    /\ err = None
    /\ pending > 0
    /\ Len(file) < MaxLines
    /\ file' = Append(file, line)
    /\ UNCHANGED <<pending, graphs, bg, prediction, features, attentions, err, call, text, ret,
                   seed, dgl_fill,
                   batch_size, df_probs_list>>

\* One iteration of the loop over df_target.index, reading the file f.
ReadGraph(f) ==
    /\ err = None
    /\ pending > 0
    /\ bg = <<>>
    /\ LET Built_(G) ==
               IF Raised(G)
               THEN /\ err' = G.exc
                    /\ UNCHANGED <<graphs, pending>>
               ELSE /\ graphs' = Append(graphs, G.val)
                    /\ pending' = pending - 1
                    /\ err' = err
       IN  Built_(BuildGraph(f))
    /\ file' = f
    /\ UNCHANGED <<bg, prediction, features, attentions, call, text, ret, seed, dgl_fill,
                   batch_size, df_probs_list>>

ReadGraphFile == ReadGraph(file)

Idle ==
    /\ file = <<>>
    /\ graphs = <<>>
    /\ bg = <<>>
    /\ prediction = <<>>
    /\ features = <<>>
    /\ attentions = <<>>
    /\ err = None
    /\ call = <<>>
    /\ text = <<>>
    /\ df_probs_list = <<>>
    /\ ret = <<>>

InitBuild ==
    /\ Idle
    /\ batch_size = 100
    /\ pending = 1
    /\ seed = 0
    /\ dgl_fill = "initializer"

NextBuild ==
    \/ \E line \in Lines : AppendLine(line)
    \/ ReadGraphFile

SpecBuild == InitBuild /\ [][NextBuild]_vars

(***************************************************************************)
(* make_node_feature applied to arguments drawn from bounded sets.         *)
(***************************************************************************)
CallFeature ==
    /\ call # <<>>
    /\ ret = <<>>
    /\ ret' = <<make_node_feature(call[1], call[2])>>
    /\ UNCHANGED <<file, pending, graphs, bg, prediction, features, attentions, err, call, text,
                   seed, dgl_fill,
                   batch_size, df_probs_list>>

InitFeature ==
    /\ file = <<>>
    /\ pending = 0
    /\ graphs = <<>>
    /\ bg = <<>>
    /\ prediction = <<>>
    /\ features = <<>>
    /\ attentions = <<>>
    /\ err = None
    /\ call \in (0..MaxN) \X (0..MaxF)
    /\ text = <<>>
    /\ batch_size = 100
    /\ df_probs_list = <<>>
    /\ ret = <<>>
    /\ seed = 0
    /\ dgl_fill = "initializer"

NextFeature == CallFeature

SpecFeature == InitFeature /\ [][NextFeature]_vars

(***************************************************************************)
(* The pipeline: graphs are read from sample files, batched and passed to  *)
(* the Classifier.                                                         *)
(***************************************************************************)
SampleFiles ==
    { <<(<<0, 7, 2>>), (<<7, 0, 1>>), (<<1, 7, 3>>)>>,
      <<(<<0, 1, 1>>), (<<0, 8, 2>>), (<<8, 8, 1>>), (<<1, 8, 3>>)>>,
      <<(<<7, 9, 1>>), (<<9, 7, 5>>), (<<0, 9, 2>>)>>,
      <<(<<0, 1, 1>>)>>,
      <<>> }

\* collate / the prediction loop: dgl.batch over the graphs read
Collate ==
    /\ err = None
    /\ pending = 0
    /\ bg = <<>>
    /\ bg' = <<dgl_batch(graphs)>>
    /\ UNCHANGED <<file, pending, graphs, prediction, features, attentions, err, call, text, ret,
                   seed, dgl_fill,
                   batch_size, df_probs_list>>

\* prediction = model(bg)
Forward ==
    /\ err = None
    /\ bg # <<>>
    /\ LET Returns(r) ==
               /\ bg' = <<r.g>>
               /\ attentions' = IF r.attn # <<>> THEN r.attn ELSE attentions
               /\ err' = r.exc
               /\ prediction' = IF r.exc = None THEN <<r.out>> ELSE prediction
               /\ features' = IF r.exc = None THEN r.features ELSE features
       IN  Returns(Classifier_forward(seed, bg[1], dgl_fill))
    /\ UNCHANGED <<file, pending, graphs, call, text, ret, seed, dgl_fill,
                   batch_size, df_probs_list>>

Init ==
    /\ Idle
    /\ batch_size = 100
    /\ pending \in 1..MaxGraphs
    /\ seed \in 0..MaxSeed
    /\ dgl_fill \in {"initializer", "keep"}

Next ==
    \/ \E f \in SampleFiles : ReadGraph(f)
    \/ Collate
    \/ Forward

Spec == Init /\ [][Next]_vars

(***************************************************************************)
(* The first layer alone: a graph is read, the caller may hand its edges   *)
(* over in another order, and BiDirectionalGCN is applied to it.           *)
(***************************************************************************)
Swap(s, i) ==
    [k \in DOMAIN s |-> IF k = i THEN s[i + 1] ELSE IF k = i + 1 THEN s[i] ELSE s[k]]

\* the graph with the edges i and i+1 exchanged (end points and edge data)
SwapEdgesOf(g, i) ==
    [g EXCEPT !.src = Swap(g.src, i),
              !.dst = Swap(g.dst, i),
              !.edata = [f \in DOMAIN g.edata |-> Swap(g.edata[f], i)]]

SwapEdges(i) ==
    /\ err = None
    /\ graphs # <<>>
    /\ ret = <<>>
    /\ i < number_of_edges(graphs[1])
    /\ graphs' = <<SwapEdgesOf(graphs[1], i)>>
    /\ UNCHANGED <<file, pending, bg, prediction, features, attentions, err, call, text, ret,
                   seed, dgl_fill,
                   batch_size, df_probs_list>>

\* h = g.ndata.pop('h'); h = conv(g, h) for the first layer
Conv1Of(sd, g, fill) ==
    BiGCN_forward(sd, n_features, hidden_dim,
                  [g EXCEPT !.ndata = DropField(g.ndata, "h")], g.ndata["h"], fill)

Conv ==
    /\ err = None
    /\ graphs # <<>>
    /\ ret = <<>>
    /\ ret' = <<Conv1Of(seed, graphs[1], dgl_fill)>>
    /\ UNCHANGED <<file, pending, graphs, bg, prediction, features, attentions, err, call, text,
                   seed, dgl_fill,
                   batch_size, df_probs_list>>

LayerFiles ==
    { <<(<<0, 7, 2>>), (<<7, 0, 1>>), (<<1, 7, 3>>)>>,
      <<(<<0, 8, 2>>), (<<1, 8, 3>>)>>,
      <<(<<7, 9, 1>>), (<<9, 7, 5>>)>>,
      <<(<<0, 1, 1>>)>> }

InitLayer ==
    /\ Idle
    /\ batch_size = 100
    /\ pending = 1
    /\ seed \in 0..MaxSeed
    /\ dgl_fill \in {"initializer", "keep"}

NextLayer ==
    \/ \E f \in LayerFiles : ReadGraph(f)
    \/ \E i \in 1..(2 * (MaxLines + 1)) : SwapEdges(i)
    \/ Conv

SpecLayer == InitLayer /\ [][NextLayer]_vars

(***************************************************************************)
(* The graph construction loop on a file given as text.                    *)
(***************************************************************************)
IdTexts == { <<"7">>, <<"-", "1">>, <<"x">> }
WeightTexts == { <<"1">>, <<"-", "1">>, <<"x">> }
TextLines == IdTexts \X IdTexts \X WeightTexts

\* The environment writes one more line of text to the file of the current row.
AppendText(line) ==
    /\ err = None
    /\ pending > 0
    /\ Len(text) < MaxLines
    /\ text' = Append(text, line)
    /\ UNCHANGED <<file, pending, graphs, bg, prediction, features, attentions, err,
                   call, ret, seed, dgl_fill,
                   batch_size, df_probs_list>>

\* One iteration of the loop over df_target.index on the text of the file.
ReadTextFile ==
    LET Converted(c) ==
            IF Raised(c)
            THEN /\ err = None
                 /\ pending > 0
                 /\ bg = <<>>
                 /\ err' = c.exc
                 /\ UNCHANGED <<file, pending, graphs, bg, prediction, features,
                                attentions, call, text, ret, seed, dgl_fill,
                   batch_size, df_probs_list>>
            ELSE ReadGraph(c.val)
    IN  Converted(convert_lines(text))

NextText ==
    \/ \E line \in TextLines : AppendText(line)
    \/ ReadTextFile

SpecText == InitBuild /\ [][NextText]_vars

(***************************************************************************)
(* The prediction driver: the test graphs are built one per row of the     *)
(* target table, then the loop predicts them batch by batch.  The column   *)
(* 'probability' is kept as the model's output, of which it is the         *)
(* sigmoid.                                                                *)
(***************************************************************************)
MaxRows == 4
MaxBatch == 3

\* iteration_count = floor(total_count / batch_size)
iteration_count_floor(total_count, size) == total_count \div size

\* iteration_count = math.ceil(total_count / batch_size)
iteration_count(total_count, size) ==
    IF total_count % size = 0 THEN total_count \div size
    ELSE (total_count \div size) + 1

\* total_count = len(df_target): one graph was built for every row
total_count == Len(graphs)

\* the positions of the rows of df_target
df_target == [k \in 1..total_count |-> k - 1]

\* prediction.view(-1)
view(out) == [k \in DOMAIN out |-> out[k][1]]

\* one iteration of `for i in tqdm(range(iteration_count))`
PredictBatch ==
    /\ err = None
    /\ pending = 0
    /\ Len(df_probs_list) < iteration_count(total_count, batch_size)
    /\ LET i     == Len(df_probs_list)
           start == i * batch_size
           end   == IF (i + 1) * batch_size > total_count THEN total_count
                    ELSE (i + 1) * batch_size
           df    == Slice(df_target, start, end)
           Assign(r) ==
               /\ bg' = <<r.g>>
               /\ attentions' = IF r.attn # <<>> THEN r.attn ELSE attentions
               /\ features' = IF r.exc = None THEN r.features ELSE features
               /\ prediction' = IF r.exc = None THEN <<r.out>> ELSE prediction
               /\ IF r.exc # None
                  THEN err' = r.exc /\ UNCHANGED df_probs_list
                  ELSE IF Len(r.out) # Len(df)
                  THEN err' = "ValueError" /\ UNCHANGED df_probs_list
                  ELSE /\ err' = None
                       /\ df_probs_list' =
                              Append(df_probs_list,
                                     [rows |-> df, probability |-> view(r.out)])
           Batch(graph_list) ==
               IF graph_list = <<>>
               THEN /\ err' = "IndexError"
                    /\ UNCHANGED <<bg, attentions, features, prediction, df_probs_list>>
               ELSE Assign(Classifier_forward(seed, dgl_batch(graph_list), dgl_fill))
       IN  Batch(Slice(graphs, start, end))
    /\ UNCHANGED <<file, pending, graphs, call, text, ret, seed, dgl_fill, batch_size>>

TestFiles ==
    { <<(<<0, 7, 2>>), (<<7, 0, 1>>), (<<1, 7, 3>>)>>,
      <<(<<7, 9, 1>>), (<<9, 7, 5>>), (<<0, 9, 2>>)>>,
      <<(<<0, 1, 1>>)>> }

InitDriver ==
    /\ Idle
    /\ pending \in 1..MaxRows
    /\ batch_size \in 1..MaxBatch
    /\ seed = 0
    /\ dgl_fill \in {"initializer", "keep"}

NextDriver ==
    \/ \E f \in TestFiles : ReadGraph(f)
    \/ PredictBatch

SpecDriver == InitDriver /\ [][NextDriver]_vars

(***************************************************************************)
(* Claims about the graph construction loop (checked under SpecBuild)      *)
(***************************************************************************)
Built == graphs # <<>>

LastGraph == graphs[Len(graphs)]

EdgeIds(g) == 1..number_of_edges(g)

EdgesLike(g, s, d, dir) ==
    {e \in EdgeIds(g) : g.src[e] = s /\ g.dst[e] = d /\ g.edata["direction"][e] = dir}

Pairs(lines) == {<<lines[k][1], lines[k][2]>> : k \in DOMAIN lines}

\* The weight on the last line of the file that names the pair p.
LastWeight(lines, p) ==
    LET ks == {k \in DOMAIN lines : <<lines[k][1], lines[k][2]>> = p}
    IN  lines[MaxOf(ks)][3]

ForwardTriples(g) ==
    {<<g.src[e], g.dst[e], g.edata["weight"][e]>> :
        e \in {x \in EdgeIds(g) : g.edata["direction"][x] = 0}}

\* C4 as stated: 2*|edges| directed edges; for each input edge (s,d,w) exactly
\* one forward edge (s,d) of weight w with flag 0 and exactly one mirrored edge
\* (d,s) of weight w with flag 1.
C4_AsStated ==
    Built =>
        /\ number_of_edges(LastGraph) = 2 * Len(file)
        /\ \A k \in DOMAIN file :
              LET s == file[k][1]
                  d == file[k][2]
                  w == file[k][3]
                  g == LastGraph
              IN  /\ Cardinality(EdgesLike(g, s, d, 0)) = 1
                  /\ Cardinality(EdgesLike(g, d, s, 1)) = 1
                  /\ \A e \in EdgesLike(g, s, d, 0) \cup EdgesLike(g, d, s, 1) :
                        g.edata["weight"][e] = w

\* C4 (amended): the built graph has 2 * (number of distinct (src,dst) pairs
\* of the file) directed edges; for each distinct pair there is exactly one
\* forward edge with flag 0 and exactly one mirrored edge with flag 1, both
\* carrying the single-precision value of the weight on the pair's last line.
C4_EdgeDoubling ==
    Built =>
        /\ number_of_edges(LastGraph) = 2 * Cardinality(Pairs(file))
        /\ \A p \in Pairs(file) :
              LET g == LastGraph
                  w == ToFloat32(LastWeight(file, p))
              IN  /\ Cardinality(EdgesLike(g, p[1], p[2], 0)) = 1
                  /\ Cardinality(EdgesLike(g, p[2], p[1], 1)) = 1
                  /\ \A e \in EdgesLike(g, p[1], p[2], 0) \cup EdgesLike(g, p[2], p[1], 1) :
                        g.edata["weight"][e] = w

\* A graph built from a file that repeats a pair and also holds the reverse pair.
C4_Witness ==
    /\ Built
    /\ Len(file) = 2
    /\ Cardinality(Pairs(file)) = 2
    /\ \E p \in Pairs(file) : <<p[2], p[1]>> \in Pairs(file) /\ p[1] # p[2]
    /\ number_of_edges(LastGraph) = 4

\* C10 as stated: the edges with flag 0 are exactly the triples of the file.
C10_AsStated == Built => ForwardTriples(LastGraph) = Range(file)

\* C10 (amended): the edges with flag 0 are, for each distinct (src,dst) pair
\* of the file, the one triple (src, dst, w') with w' the single-precision
\* value of the weight on the pair's last line.
C10_RoundTrip ==
    Built =>
        ForwardTriples(LastGraph) =
            {<<p[1], p[2], ToFloat32(LastWeight(file, p))>> : p \in Pairs(file)}

\* A graph built from a file that names one pair twice with different weights.
C10_Witness ==
    /\ Built
    /\ Len(file) = 2
    /\ Cardinality(Pairs(file)) = 1
    /\ file[1][3] # file[2][3]
    /\ Cardinality(ForwardTriples(LastGraph)) = 1

(***************************************************************************)
(* Claims about node padding (checked under SpecBuild)                     *)
(***************************************************************************)
\* the node ids the file names
FileIds(lines) == {lines[k][1] : k \in DOMAIN lines} \cup {lines[k][2] : k \in DOMAIN lines}

\* C11: a graph built from a file whose largest node id is M has M + 1
\* nodes; every id of 0..M that is in no line is a node without edges, and
\* every line (s, d, w) is an edge from node s to node d, so that row i of
\* the node features belongs to the node id i of the file.
C11_NodePadding ==
    Built =>
        LET g == LastGraph
            M == MaxOf(FileIds(file))
        IN  /\ g.n = M + 1
            /\ Len(g.ndata["h"]) = M + 1
            /\ \A i \in (0..M) \ FileIds(file) :
                  \A e \in EdgeIds(g) : g.src[e] # i /\ g.dst[e] # i
            /\ \A k \in DOMAIN file :
                  EdgesLike(g, file[k][1], file[k][2], 0) # {}
            /\ \A e \in EdgeIds(g) :
                  g.src[e] \in FileIds(file) /\ g.dst[e] \in FileIds(file)

\* A graph built from a file whose first line starts at its largest node id
\* and which leaves ids below it unnamed.
C11_Witness ==
    /\ Built
    /\ file # <<>>
    /\ file[1][1] = MaxOf(FileIds(file))
    /\ file[1][2] < file[1][1]
    /\ (0..MaxOf(FileIds(file))) \ FileIds(file) # {}
    /\ LastGraph.n = 8

(***************************************************************************)
(* Claims about input validation (checked under SpecText)                  *)
(***************************************************************************)
\* the text of a non-negative integer
IsNatural(t) == t # <<>> /\ \A k \in DOMAIN t : IsDigit(t[k])

\* a non-empty edge list whose node ids are non-negative integers and whose
\* weights are non-negative numbers
ValidEdgeList(lines) ==
    /\ lines # <<>>
    /\ \A k \in DOMAIN lines :
          IsNatural(lines[k][1]) /\ IsNatural(lines[k][2]) /\ IsNatural(lines[k][3])

\* C12 as stated: the builder appends a graph only for a valid edge list; a
\* list with a non-numeric or negative weight, with a node id that is not a
\* non-negative integer, or without lines ends in an error and no graph.
C12_AsStated ==
    /\ Built => ValidEdgeList(text)
    /\ err # None => graphs = <<>>

(***************************************************************************)
(* Claims about BiDirectionalGCN (checked under SpecLayer)                 *)
(***************************************************************************)
ConvDone == ret # <<>> /\ ret[1].exc = None

HasInEdge(g, v) == \E e \in EdgeIds(g) : g.dst[e] = v

\* Entry j of the sum of H[u] * weight over the edges u -> v with flag dir.
MessageSum(g, H, v, dir, j) ==
    SumSeq([e \in EdgeIds(g) |->
               IF g.dst[e] = v /\ g.edata["direction"][e] = dir
               THEN H[g.src[e] + 1][j] * g.edata["weight"][e]
               ELSE 0])

MessageSums(g, H, v, dir) == [j \in 1..n_features |-> MessageSum(g, H, v, dir, j)]

\* The layer's result at every node, given which flag h0 and h1 collect.
BiGCNResultIs(flag0, flag1) ==
    LET g   == ret[1].g
        H   == graphs[1].ndata["h"]
        out == ret[1].h
    IN  \A v \in NodeIdsOf(g) :
            /\ IF HasInEdge(g, v)
               THEN /\ g.ndata["h0"][v + 1] = MessageSums(g, H, v, flag0)
                    /\ g.ndata["h1"][v + 1] = MessageSums(g, H, v, flag1)
               ELSE /\ g.ndata["h0"][v + 1] = [j \in 1..n_features |-> 0]
                    /\ g.ndata["h1"][v + 1] = [j \in 1..n_features |-> 0]
            /\ out[v + 1] =
                   relu(Linear(Weight(seed, 1, hidden_dim, 3 * n_features),
                               Bias(seed, 1, hidden_dim),
                               H[v + 1] \o g.ndata["h0"][v + 1] \o g.ndata["h1"][v + 1]))

\* C1 as stated: h0[v] is the sum of H[u]*weight over v's incoming edges with
\* flag 0 and h1[v] the sum over those with flag 1; the update is applied to
\* (H[v], h0[v], h1[v]); a node without incoming edge has h0 = h1 = 0.
C1_AsStated == ConvDone => BiGCNResultIs(0, 1)

\* C1 (amended): h0[v] is the sum of H[u]*weight over v's incoming edges with
\* flag 1 (mirrored edges) and h1[v] the sum over those with flag 0 (original
\* edges); the update is activation(Linear(concat(H[v], h0[v], h1[v]))); a
\* node without incoming edge has h0 = h1 = 0.
C1_Reduction == ConvDone => BiGCNResultIs(1, 0)

\* The layer has run on a graph with a node whose two sums differ and are not
\* zero, and with a node without incoming edge.
C1_Witness ==
    /\ ConvDone
    /\ \E v \in NodeIdsOf(ret[1].g) :
          LET z == [j \in 1..n_features |-> 0]
          IN  /\ ret[1].g.ndata["h0"][v + 1] # ret[1].g.ndata["h1"][v + 1]
              /\ ret[1].g.ndata["h0"][v + 1] # z
              /\ ret[1].g.ndata["h1"][v + 1] # z
    /\ \E v \in NodeIdsOf(ret[1].g) : ~HasInEdge(ret[1].g, v)

\* C9: the output of the layer on a graph whose edges were handed over in
\* another order equals, at every node, its output on the graph as built.
C9_PermutationInvariance ==
    ConvDone => ret[1].h = Conv1Of(seed, BuildGraph(file).val, dgl_fill).h

\* The layer has run on a graph whose edges are not in the order they were
\* built in, and some node receives two messages in exchanged order.
C9_Witness ==
    /\ ConvDone
    /\ LET g == graphs[1]
           b == BuildGraph(file).val
       IN  \E v \in NodeIdsOf(g) :
               /\ Len(InEdges(g, v)) >= 2
               /\ [k \in DOMAIN InEdges(g, v) |-> g.src[InEdges(g, v)[k]]]
                      # [k \in DOMAIN InEdges(b, v) |-> b.src[InEdges(b, v)[k]]]

(***************************************************************************)
(* Claims about Classifier.forward on a batch (checked under Spec)         *)
(***************************************************************************)
\* a forward call has returned and no later call has raised
Done == bg # <<>> /\ prediction # <<>> /\ err = None

\* first row (0-based) of the k-th graph of the batch
FirstRow(k) == SumSeq([i \in 1..(k - 1) |-> bg[1].batch_num_nodes[i]])

\* the embedding of node i (0-based) of the k-th graph of the batch
Embedding(k, i) == bg[1].ndata["h"][FirstRow(k) + i + 1]

PoolIds(k) == HeadNodes..(bg[1].batch_num_nodes[k] - 1)

\* C7: the readout vector of every graph of the batch has width
\* 9 * hidden_dim: the embeddings of the nodes 0..6 in index order, then the
\* element-wise mean and then the element-wise max of the embeddings of the
\* nodes with index >= 7.
C7_ReadoutWidth ==
    Done =>
        \A k \in DOMAIN features :
            /\ Len(features[k]) = 9 * hidden_dim
            /\ \A i \in 0..6 : \A j \in 1..hidden_dim :
                  features[k][i * hidden_dim + j] = Embedding(k, i)[j]
            /\ \A j \in 1..hidden_dim :
                  /\ features[k][7 * hidden_dim + j] =
                        SumSeq([i \in 1..Cardinality(PoolIds(k)) |->
                                   Embedding(k, HeadNodes + i - 1)[j]])
                            \div Cardinality(PoolIds(k))
                  /\ features[k][8 * hidden_dim + j] =
                        MaxOf({Embedding(k, i)[j] : i \in PoolIds(k)})

\* A batch of a graph with 8 nodes and a larger graph, whose pooled rows are
\* not all alike, has been read out.
C7_Witness ==
    /\ Done
    /\ Len(features) = 2
    /\ bg[1].batch_num_nodes[1] = 8
    /\ bg[1].batch_num_nodes[2] > 8
    /\ \E i \in PoolIds(2) : Embedding(2, i) # Embedding(2, HeadNodes)

\* C6: a batch of K graphs gives K outputs; the readout vector and the logit
\* of the k-th graph are those of the k-th graph passed through the pipeline
\* alone.
C6_BatchingEquivalence ==
    Done =>
        /\ Len(prediction[1]) = Len(graphs)
        /\ Len(features) = Len(graphs)
        /\ \A k \in DOMAIN graphs :
              LET alone == Classifier_forward(seed, dgl_batch(<<graphs[k]>>), dgl_fill)
              IN  /\ alone.exc = None
                  /\ features[k] = alone.features[1]
                  /\ prediction[1][k] = alone.out[1]

\* A batch of two graphs of different sizes with different logits.
C6_Witness ==
    /\ Done
    /\ Len(graphs) = 2
    /\ graphs[1].n # graphs[2].n
    /\ prediction[1][1] # prediction[1][2]

\* the incoming edges of node v of the batch, and their logits with the self
\* logit last
Attended(v) == InEdges(bg[1], v)

Logits(v) ==
    [k \in DOMAIN Attended(v) |-> bg[1].edata["e"][Attended(v)[k]][1]]
        \o bg[1].ndata["e_self"][v + 1]

\* C8: at every node with an incoming edge the attention weights of the
\* joint softmax over the logits of the incoming edges and the self logit
\* are positive and sum to one, and the output is
\* activation(sum_u alpha[u->v] * z[u] + alpha_self * z_self[v]), every
\* incoming edge paired with the projection of its own source node.
C8_AttentionNormalised ==
    Done =>
        \A v \in NodeIdsOf(bg[1]) :
            Attended(v) # <<>> =>
                LET alpha == softmax(Logits(v))
                    deg   == Len(Attended(v))
                IN  /\ Len(alpha.num) = deg + 1
                    /\ \A k \in DOMAIN alpha.num : alpha.num[k] > 0
                    /\ SumSeq(alpha.num) = alpha.den
                    /\ \A j \in 1..hidden_dim :
                          bg[1].ndata["h"][v + 1][j] =
                              LET x == (SumSeq([k \in 1..deg |->
                                            alpha.num[k]
                                              * bg[1].ndata["z"][bg[1].src[Attended(v)[k]] + 1][j]])
                                        + alpha.num[deg + 1] * bg[1].ndata["z_self"][v + 1][j])
                                           \div alpha.den
                              IN  IF x > 0 THEN x ELSE 0

\* A node with two incoming edges from nodes of different projections and
\* unequal attention weights has a non-zero output.
C8_Witness ==
    /\ Done
    /\ \E v \in NodeIdsOf(bg[1]) :
          /\ Len(Attended(v)) >= 2
          /\ \E a, b \in Range(Attended(v)) :
                bg[1].ndata["z"][bg[1].src[a] + 1] # bg[1].ndata["z"][bg[1].src[b] + 1]
          /\ Cardinality(Range(softmax(Logits(v)).num)) >= 2
          /\ \E j \in 1..hidden_dim : bg[1].ndata["h"][v + 1][j] > 0

\* C13: no graph with fewer than 8 nodes is appended; reading a file whose
\* graph would have fewer than 8 nodes ends in an error, and no logit is
\* produced after it; every graph that was read out has a node of index >= 7
\* to pool over.
C13_TooSmallRejected ==
    /\ \A k \in DOMAIN graphs : graphs[k].n >= n_features
    /\ (file # <<>> /\ MaxOf(FileIds(file)) + 1 < n_features) =>
           /\ err # None
           /\ bg = <<>>
           /\ prediction = <<>>
    /\ Done => \A k \in DOMAIN features : PoolIds(k) # {}

\* After a graph of 8 or more nodes, a file whose graph would have 2 nodes
\* has been read.
C13_Witness ==
    /\ Len(graphs) = 1
    /\ file = <<(<<0, 1, 1>>)>>
    /\ err = "RuntimeError"

\* C2 as stated: the output of GATWithSelfLoop for a node without incoming
\* edge is activation(z_self[v]).
C2_AsStated ==
    Done =>
        \A v \in NodeIdsOf(bg[1]) :
            Attended(v) = <<>> =>
                bg[1].ndata["h"][v + 1] = relu(bg[1].ndata["z_self"][v + 1])

\* C3 as stated: after a forward call the node features 'h' of the batch are
\* the ones it was built with, and every further call on the batch returns,
\* and returns the same logits.
C3_AsStated ==
    (bg # <<>> /\ prediction # <<>>) =>
        /\ bg[1].ndata["h"] = dgl_batch(graphs).ndata["h"]
        /\ err = None
        /\ prediction[1] = Classifier_forward(seed, dgl_batch(graphs), dgl_fill).out

(***************************************************************************)
(* Claims about make_node_feature (checked under SpecFeature)              *)
(***************************************************************************)
Returned == ret # <<>> /\ ~Raised(ret[1])

\* C5: whenever make_node_feature(N, F) returns, the result has N rows of
\* width F, every row holds exactly one 1 and otherwise 0, row i < F has its
\* 1 in column i and every row i >= F has it in column F-1.
C5_OneHot ==
    Returned =>
        LET N == call[1]
            F == call[2]
            H == ret[1].val
        IN  /\ Len(H) = N
            /\ \A i \in 0..(N - 1) :
                  /\ Len(H[i + 1]) = F
                  /\ \A j \in 0..(F - 1) :
                        H[i + 1][j + 1] = IF j = (IF i < F THEN i ELSE F - 1) THEN 1 ELSE 0
                  /\ Cardinality({j \in 1..F : H[i + 1][j] = 1}) = 1

\* The scenario of the specification: 3 nodes, F = 2.
C5_Witness ==
    /\ call = <<3, 2>>
    /\ Returned
    /\ ret[1].val = <<(<<1, 0>>), (<<0, 1>>), (<<0, 1>>)>>

(***************************************************************************)
(* Claims about the prediction driver (checked under SpecDriver)           *)
(***************************************************************************)
LoopDone ==
    /\ err = None
    /\ pending = 0
    /\ Len(df_probs_list) = iteration_count(total_count, batch_size)

\* the rows visited so far, in the order of the visits, and their outputs
VisitedRows == Flatten([b \in DOMAIN df_probs_list |-> df_probs_list[b].rows])

Probabilities == Flatten([b \in DOMAIN df_probs_list |-> df_probs_list[b].probability])

\* what the model returns for the graph at position p, taken alone
OutputOf(p) ==
    Classifier_forward(seed, dgl_batch(<<graphs[p + 1]>>), dgl_fill).out[1][1]

\* C14: the prediction loop visits the rows 0..total_count-1 in increasing
\* order, each once and in no empty batch; when the loop has ended every row
\* has exactly one probability, the one computed from the graph at the same
\* position; and an exception raised while a graph is built ends the run
\* with the graph neither skipped nor predicted.
C14_NoGraphDropped ==
    /\ \A b \in DOMAIN df_probs_list :
           /\ df_probs_list[b].rows # <<>>
           /\ Len(df_probs_list[b].rows) <= batch_size
           /\ Len(df_probs_list[b].probability) = Len(df_probs_list[b].rows)
    /\ VisitedRows = [k \in 1..Len(VisitedRows) |-> k - 1]
    /\ Len(VisitedRows) <= total_count
    /\ \A k \in DOMAIN VisitedRows : Probabilities[k] = OutputOf(VisitedRows[k])
    /\ LoopDone => VisitedRows = df_target
    /\ (df_probs_list # <<>> \/ LoopDone) => (pending = 0 /\ total_count >= 1)
    /\ (file # <<>> /\ MaxOf(FileIds(file)) + 1 < n_features) =>
           (err # None /\ df_probs_list = <<>>)
    /\ (err # None /\ pending > 0) => df_probs_list = <<>>

\* three graphs with different outputs predicted in batches of two: the last
\* batch is the short one
C14_Witness ==
    /\ LoopDone
    /\ total_count = 3
    /\ batch_size = 2
    /\ Len(df_probs_list) = 2
    /\ df_probs_list[2].rows = <<2>>
    /\ Probabilities[1] # Probabilities[2]

====
